---- MODULE Spec2Model ----
(***************************************************************************)
(* Model of flet_object_inspector/flet_object_inspector.py: the            *)
(* FletInspector class (inspect, to_dict and their helpers) and the        *)
(* module-level convenience functions.                                     *)
(*                                                                         *)
(* Python values are tagged records.  Scalars carry their value; lists,    *)
(* dicts and class instances live in a heap and are referred to by         *)
(* identity (Ref), so that an object graph may share objects and may       *)
(* contain cycles.  A Python string is the sequence of its characters, and *)
(* the text the inspector builds is the sequence of the pieces it          *)
(* concatenates.                                                           *)
(***************************************************************************)
EXTENDS Integers, Sequences, FiniteSets, TLC

VARIABLES heap, inspector, call, result, stdout

vars == <<heap, inspector, call, result, stdout>>

(***************************************************************************)
(* Bounds of the model.                                                    *)
(***************************************************************************)
\* max_depth arguments are drawn from -1..MaxCfgDepth
MaxCfgDepth == 2
\* indent_size arguments are drawn from 0..MaxIndent
MaxIndent == 2
\* depth of the interpreter's call stack at which Python raises
\* RecursionError (sys.getrecursionlimit(), scaled down)
RecursionLimit == 6

(***************************************************************************)
(* Program constants.                                                      *)
(***************************************************************************)
DefaultIndentSize == 2
DefaultMaxDepth == 10
PropMaxLen == 30

(***************************************************************************)
(* Python values.                                                          *)
(***************************************************************************)
None == [k |-> "none"]
IntV(n) == [k |-> "int", n |-> n]
BoolV(b) == [k |-> "bool", b |-> b]
StrV(s) == [k |-> "str", s |-> s]
Ref(i) == [k |-> "ref", id |-> i]
\* what to_dict returns when the recursion exhausts the call stack
RecursionError == [k |-> "RecursionError"]
\* a list / dict built by to_dict (a fresh object, held by value)
ListV(items) == [k |-> "list", items |-> items]
DictV(entries) == [k |-> "dict", entries |-> entries]
Entry(key, val) == [key |-> key, val |-> val]

IsRef(v) == v.k = "ref"
\* isinstance(value, str)
IsStr(v) == v.k = "str"
\* isinstance(value, list)
IsList(v) == IF IsRef(v) THEN heap[v.id].kind = "list" ELSE v.k = "list"
\* isinstance(value, dict)
IsDict(v) == IF IsRef(v) THEN heap[v.id].kind = "dict" ELSE v.k = "dict"
\* isinstance(value, (str, int, float, bool))
IsPrimitive(v) == v.k \in {"str", "int", "bool"}
\* hasattr(obj, '__class__') and obj.__class__.__module__.startswith('flet')
IsFlet(v) == IsRef(v) /\ heap[v.id].kind = "object" /\ heap[v.id].flet
\* hasattr(obj, attr) / getattr(obj, attr) of a class instance
hasattr(obj, attr) == attr \in DOMAIN heap[obj.id].attrs
getattr(obj, attr) == heap[obj.id].attrs[attr]
\* the elements of a list, the entries of a dict
ItemsOf(v) == IF IsRef(v) THEN heap[v.id].items ELSE v.items
EntriesOf(v) == IF IsRef(v) THEN heap[v.id].entries ELSE v.entries

(***************************************************************************)
(* The attribute lists of the source.                                      *)
(***************************************************************************)
\* an attribute more on the list, and two of its names exchanged
common_props_changed ==
    <<"text", "width", "value", "height", "bgcolor", "color",
      "visible", "disabled", "tooltip", "key", "data", "route",
      "title", "label", "hint_text", "padding", "margin", "foo">>

common_props ==
    <<"text", "value", "width", "height", "bgcolor", "color",
      "visible", "disabled", "tooltip", "key", "data", "route",
      "title", "label", "hint_text", "padding", "margin">>

special_attrs ==
    <<"appbar", "drawer", "end_drawer", "floating_action_button",
      "bottom_navigation_bar", "navigation_bar">>

\* the app bar slot taken for a child-holding attribute as well
child_attrs_with_appbar ==
    <<"appbar", "controls", "content", "actions", "tabs", "items",
      "leading", "title", "trailing", "options">>

\* content looked at before controls
child_attrs_content_first ==
    <<"content", "controls", "actions", "tabs", "items",
      "leading", "title", "trailing", "options">>

child_attrs ==
    <<"controls", "content", "actions", "tabs", "items",
      "leading", "title", "trailing", "options">>

Range(s) == {s[i] : i \in 1..Len(s)}

(***************************************************************************)
(* Text pieces.                                                            *)
(***************************************************************************)
Digits == <<"0", "1", "2", "3", "4", "5", "6", "7", "8", "9">>

\* str(n) of an integer n >= 0
RECURSIVE IntStr(_)
IntStr(n) ==
    IF n < 10 THEN Digits[n + 1]
    ELSE IntStr(n \div 10) \o Digits[(n % 10) + 1]

\* " " * n (the empty string when n <= 0)
RECURSIVE Spaces(_)
Spaces(n) == IF n <= 0 THEN "" ELSE " " \o Spaces(n - 1)

Placeholder == "... (max depth reached)"

\* str(value) of a value that is not a string
PyStr(v) ==
    CASE v.k = "none" -> <<"None">>
      [] v.k = "int" -> <<IntStr(v.n)>>
      [] v.k = "bool" -> <<IF v.b THEN "True" ELSE "False">>
      [] v.k = "str" -> v.s
      [] OTHER -> <<"<object>", IntStr(v.id)>>

\* repr(obj) of a value that is neither a flet object, a list nor a dict
PyRepr(v) ==
    IF v.k = "str" THEN <<"'">> \o v.s \o <<"'">> ELSE PyStr(v)

(***************************************************************************)
(* FletInspector._get_control_properties                                   *)
(***************************************************************************)
\* the comparison with "" left out
NotEmptyStr_unchecked(v) == TRUE

\* value != "" (a string is equal only to a string)
NotEmptyStr(v) == ~(IsStr(v) /\ Len(v.s) = 0)

\* the cut taken from the length PropMaxLen on
Truncated_early(value) ==
    IF IsStr(value) /\ Len(value.s) >= PropMaxLen
    THEN StrV(SubSeq(value.s, 1, PropMaxLen) \o <<".", ".", ".">>)
    ELSE value

\* lines 132-133: a long string is cut for display
Truncated(value) ==
    IF IsStr(value) /\ Len(value.s) > PropMaxLen
    THEN StrV(SubSeq(value.s, 1, PropMaxLen) \o <<".", ".", ".">>)
    ELSE value

\* lines 128-134: the props dict, as its entries in insertion order
RECURSIVE DisplayProps(_, _)
DisplayProps(obj, i) ==
    IF i > Len(common_props) THEN <<>>
    ELSE LET prop == common_props[i]
             rest == DisplayProps(obj, i + 1)
         IN IF hasattr(obj, prop)
                 /\ getattr(obj, prop) # None
                 /\ NotEmptyStr(getattr(obj, prop))
            THEN <<Entry(prop, Truncated(getattr(obj, prop)))>> \o rest
            ELSE rest

\* lines 140-143: one formatted property
PropStr(e) ==
    IF IsStr(e.val)
    THEN <<e.key, "='">> \o e.val.s \o <<"'">>
    ELSE <<e.key, "=">> \o PyStr(e.val)

\* ', '.join(prop_strs)
RECURSIVE JoinProps(_, _)
JoinProps(props, i) ==
    IF i > Len(props) THEN <<>>
    ELSE (IF i > 1 THEN <<", ">> ELSE <<>>)
         \o PropStr(props[i]) \o JoinProps(props, i + 1)

_get_control_properties(obj) ==
    LET props == DisplayProps(obj, 1)
    IN IF Len(props) > 0
       THEN <<"(">> \o JoinProps(props, 1) \o <<")">>
       ELSE <<>>

(***************************************************************************)
(* FletInspector._get_special_children                                     *)
(***************************************************************************)
\* the special_children dict, as its entries in insertion order
RECURSIVE SpecialFrom(_, _)
SpecialFrom(obj, i) ==
    IF i > Len(special_attrs) THEN <<>>
    ELSE LET attr == special_attrs[i]
             rest == SpecialFrom(obj, i + 1)
         IN IF hasattr(obj, attr)
                 /\ getattr(obj, attr) # None
                 /\ IsFlet(getattr(obj, attr))
            THEN <<Entry(attr, getattr(obj, attr))>> \o rest
            ELSE rest

_get_special_children(obj) == SpecialFrom(obj, 1)

(***************************************************************************)
(* FletInspector._get_children                                             *)
(***************************************************************************)
\* an empty list returned as well
ReturnsAt_empty_list(obj, attr) ==
    /\ hasattr(obj, attr)
    /\ getattr(obj, attr) # None
    /\ \/ IsList(getattr(obj, attr)) /\ Len(ItemsOf(getattr(obj, attr))) >= 0
       \/ /\ ~IsList(getattr(obj, attr))
          /\ ~IsPrimitive(getattr(obj, attr))
          /\ IsFlet(getattr(obj, attr))

\* lines 176-181: does the loop return at this attribute
ReturnsAt(obj, attr) ==
    /\ hasattr(obj, attr)
    /\ getattr(obj, attr) # None
    /\ \/ IsList(getattr(obj, attr)) /\ Len(ItemsOf(getattr(obj, attr))) > 0
       \/ /\ ~IsList(getattr(obj, attr))
          /\ ~IsPrimitive(getattr(obj, attr))
          /\ IsFlet(getattr(obj, attr))

RECURSIVE ChildrenFrom(_, _)
\* a single flet object returned as a list of one element
ChildrenFrom_wrapped(obj, i) ==
    IF i > Len(child_attrs) THEN None
    ELSE IF ReturnsAt(obj, child_attrs[i])
         THEN IF IsList(getattr(obj, child_attrs[i]))
              THEN getattr(obj, child_attrs[i])
              ELSE ListV(<<getattr(obj, child_attrs[i])>>)
         ELSE ChildrenFrom(obj, i + 1)

ChildrenFrom(obj, i) ==
    IF i > Len(child_attrs) THEN None
    ELSE IF ReturnsAt(obj, child_attrs[i])
         THEN getattr(obj, child_attrs[i])
         ELSE ChildrenFrom(obj, i + 1)

_get_children(obj) == ChildrenFrom(obj, 1)

(***************************************************************************)
(* FletInspector._inspect_recursive / _inspect_flet_control                *)
(***************************************************************************)
RECURSIVE _inspect_recursive(_, _, _, _)
RECURSIVE _inspect_flet_control(_, _, _, _, _)
RECURSIVE ListLines(_, _, _, _, _, _)
RECURSIVE DictLines(_, _, _, _, _, _)
RECURSIVE SpecialLines(_, _, _, _, _, _)

\* lines 50-54 and 105-110: one "[i] item" line per element (i from 1 here,
\* printed from 0)
ListLines(self, items, i, show_properties, depth, indent) ==
    IF i > Len(items) THEN <<>>
    ELSE <<indent, "  [", IntStr(i - 1), "] ">>
         \o _inspect_recursive(self, items[i], show_properties, depth + 1)
         \o (IF i - 1 < Len(items) - 1 THEN <<",">> ELSE <<>>)
         \o <<"\n">>
         \o ListLines(self, items, i + 1, show_properties, depth, indent)

\* lines 65-69: one "'key': value" line per entry
DictLines(self, entries, i, show_properties, depth, indent) ==
    IF i > Len(entries) THEN <<>>
    ELSE <<indent, "  '", entries[i].key, "': ">>
         \o _inspect_recursive(self, entries[i].val, show_properties, depth + 1)
         \o (IF i - 1 < Len(entries) - 1 THEN <<",">> ELSE <<>>)
         \o <<"\n">>
         \o DictLines(self, entries, i + 1, show_properties, depth, indent)

\* lines 98-100: one "name: child" line per special child
SpecialLines(self, special, i, show_properties, depth, indent) ==
    IF i > Len(special) THEN <<>>
    ELSE <<indent, "  ", special[i].key, ": ">>
         \o _inspect_recursive(self, special[i].val, show_properties, depth + 1)
         \o <<"\n">>
         \o SpecialLines(self, special, i + 1, show_properties, depth, indent)

\* lines 103-113: the ordinary children, a list or a single object
ChildLines(self, children, show_properties, depth, indent) ==
    IF children = None THEN <<>>
    ELSE IF IsList(children)
         THEN ListLines(self, ItemsOf(children), 1, show_properties, depth, indent)
         ELSE <<indent, "  ">>
              \o _inspect_recursive(self, children, show_properties, depth + 1)
              \o <<"\n">>

\* lines 80-87: the class name and, when asked for, the properties
HeadText(obj, show_properties) ==
    LET class_name == heap[obj.id].cls
        props == IF show_properties THEN _get_control_properties(obj) ELSE <<>>
    IN class_name \o (IF Len(props) > 0 THEN <<" ">> \o props ELSE <<>>)

\* lines 93-117: the block of special and ordinary children, when there are any
BlockText(self, children, special_children, show_properties, depth, indent) ==
    IF children # None \/ Len(special_children) > 0
    THEN <<" {", "\n">>
         \o SpecialLines(self, special_children, 1, show_properties, depth, indent)
         \o ChildLines(self, children, show_properties, depth, indent)
         \o <<indent, "}">>
    ELSE <<>>

_inspect_flet_control(self, obj, show_properties, depth, indent) ==
    HeadText(obj, show_properties)
    \o BlockText(self, _get_children(obj), _get_special_children(obj),
                 show_properties, depth, indent)

\* the cutoff taken one level too late
_inspect_recursive_late(self, obj, show_properties, depth) ==
    IF depth > self.max_depth + 1 THEN <<Placeholder>>
    ELSE LET indent == Spaces(depth * self.indent_size)
         IN IF IsFlet(obj)
            THEN _inspect_flet_control(self, obj, show_properties, depth, indent)
            ELSE IF IsList(obj)
            THEN IF Len(ItemsOf(obj)) = 0 THEN <<"[]">>
                 ELSE <<"[", "\n">>
                      \o ListLines(self, ItemsOf(obj), 1, show_properties, depth, indent)
                      \o <<indent, "]">>
            ELSE IF IsDict(obj)
            THEN IF Len(EntriesOf(obj)) = 0 THEN <<"{}">>
                 ELSE <<"{", "\n">>
                      \o DictLines(self, EntriesOf(obj), 1, show_properties, depth, indent)
                      \o <<indent, "}">>
            ELSE PyRepr(obj)

_inspect_recursive(self, obj, show_properties, depth) ==
    IF depth > self.max_depth THEN <<Placeholder>>
    ELSE LET indent == Spaces(depth * self.indent_size)
         IN IF IsFlet(obj)
            THEN _inspect_flet_control(self, obj, show_properties, depth, indent)
            ELSE IF IsList(obj)
            THEN IF Len(ItemsOf(obj)) = 0 THEN <<"[]">>
                 ELSE <<"[", "\n">>
                      \o ListLines(self, ItemsOf(obj), 1, show_properties, depth, indent)
                      \o <<indent, "]">>
            ELSE IF IsDict(obj)
            THEN IF Len(EntriesOf(obj)) = 0 THEN <<"{}">>
                 ELSE <<"{", "\n">>
                      \o DictLines(self, EntriesOf(obj), 1, show_properties, depth, indent)
                      \o <<indent, "}">>
            ELSE PyRepr(obj)

(***************************************************************************)
(* FletInspector.to_dict                                                   *)
(***************************************************************************)
RECURSIVE to_dict(_, _)
RECURSIVE DictItems(_, _, _)
RECURSIVE DictEntries(_, _, _)

\* lines 200-204: result['properties'], as its entries in insertion order
RECURSIVE RawProps(_, _)
\* the special children stored among the properties as well
RawProps_with_slots(obj, i) ==
    IF i > Len(common_props) THEN SpecialFrom(obj, 1)
    ELSE LET prop == common_props[i]
             rest == RawProps(obj, i + 1)
         IN IF hasattr(obj, prop)
                 /\ getattr(obj, prop) # None
                 /\ NotEmptyStr(getattr(obj, prop))
            THEN <<Entry(prop, getattr(obj, prop))>> \o rest
            ELSE rest

RawProps(obj, i) ==
    IF i > Len(common_props) THEN <<>>
    ELSE LET prop == common_props[i]
             rest == RawProps(obj, i + 1)
         IN IF hasattr(obj, prop)
                 /\ getattr(obj, prop) # None
                 /\ NotEmptyStr(getattr(obj, prop))
            THEN <<Entry(prop, getattr(obj, prop))>> \o rest
            ELSE rest

\* [self.to_dict(item) for item in items], or RecursionError
DictItems(items, i, d) ==
    IF i > Len(items) THEN ListV(<<>>)
    ELSE LET first == to_dict(items[i], d)
             rest == DictItems(items, i + 1, d)
         IN IF first = RecursionError \/ rest = RecursionError
            THEN RecursionError
            ELSE ListV(<<first>> \o rest.items)

\* {key: self.to_dict(value) for key, value in entries}, or RecursionError
DictEntries(entries, i, d) ==
    IF i > Len(entries) THEN DictV(<<>>)
    ELSE LET first == to_dict(entries[i].val, d)
             rest == DictEntries(entries, i + 1, d)
         IN IF first = RecursionError \/ rest = RecursionError
            THEN RecursionError
            ELSE DictV(<<Entry(entries[i].key, first)>> \o rest.entries)

\* the 'children' key left out when there are no ordinary children
to_dict_sparse(obj, d) ==
    IF d > RecursionLimit THEN RecursionError
    ELSE IF IsFlet(obj)
    THEN LET children == _get_children(obj)
             converted ==
                 IF children # None
                 THEN IF IsList(children)
                      THEN DictItems(ItemsOf(children), 1, d + 1)
                      ELSE to_dict(children, d + 1)
                 ELSE None
         IN IF converted = RecursionError THEN RecursionError
            ELSE DictV(<<Entry("type", StrV(heap[obj.id].cls)),
                         Entry("properties", DictV(RawProps(obj, 1)))>>
                       \o (IF converted = None THEN <<>>
                           ELSE <<Entry("children", converted)>>))
    ELSE IF IsList(obj) THEN DictItems(ItemsOf(obj), 1, d + 1)
    ELSE IF IsDict(obj) THEN DictEntries(EntriesOf(obj), 1, d + 1)
    ELSE obj

\* to_dict(obj) running in the d-th nested call of to_dict
to_dict(obj, d) ==
    IF d > RecursionLimit THEN RecursionError
    ELSE IF IsFlet(obj)
    THEN LET children == _get_children(obj)
             converted ==
                 IF children # None
                 THEN IF IsList(children)
                      THEN DictItems(ItemsOf(children), 1, d + 1)
                      ELSE to_dict(children, d + 1)
                 ELSE None
         IN IF converted = RecursionError THEN RecursionError
            ELSE DictV(<<Entry("type", StrV(heap[obj.id].cls)),
                         Entry("properties", DictV(RawProps(obj, 1))),
                         Entry("children", converted)>>)
    ELSE IF IsList(obj) THEN DictItems(ItemsOf(obj), 1, d + 1)
    ELSE IF IsDict(obj) THEN DictEntries(EntriesOf(obj), 1, d + 1)
    ELSE obj

(***************************************************************************)
(* The object graphs handed to the inspector.                              *)
(*   1  the root widget (a View), its attributes drawn below               *)
(*   2  an AppBar whose title is the Text 3                                *)
(*   3  a Text, a leaf                                                     *)
(*   4  a list                                                             *)
(*   5  a dict                                                             *)
(*   6  an IconButton, a leaf                                              *)
(***************************************************************************)
Home == <<"H", "o", "m", "e">>
App == <<"A", "p", "p">>
Blue == <<"B", "L", "U", "E">>
Alphabet == <<"a", "b", "c", "d", "e", "f", "g">>
\* a string of n characters, no two neighbours alike
RECURSIVE LongStr(_)
LongStr(n) ==
    IF n = 0 THEN <<>>
    ELSE Append(LongStr(n - 1), Alphabet[((n - 1) % Len(Alphabet)) + 1])

\* an attribute a class instance does not have
Absent == [k |-> "absent"]

AttrNames ==
    Range(common_props) \cup Range(special_attrs) \cup Range(child_attrs) \cup {"foo"}

\* the attributes of an instance: those of full that are there
Attrs(full) == [a \in {b \in DOMAIN full : full[b] # Absent} |-> full[a]]

Widget(cls, full) ==
    [kind |-> "object", flet |-> TRUE, cls |-> cls, attrs |-> Attrs(full)]

\* the root's controls attribute and, when it is the list 4, the list's elements
ControlsChoices ==
    {<<Absent, <<Ref(2), Ref(3)>>>>, <<None, <<Ref(2), Ref(3)>>>>}
    \cup {<<Ref(4), items>> :
            items \in {<<>>, <<Ref(2), Ref(3)>>, <<Ref(3), Ref(6)>>,
                       <<Ref(1)>>, <<Ref(4)>>}}
ContentChoices == {Absent, Ref(2), Ref(1), StrV(Home)}
AppbarChoices == {Absent, None, Ref(2)}
TitleChoices == {Absent, Ref(3), StrV(App)}
TooltipChoices == {Absent, None, StrV(<<>>), StrV(Home), StrV(LongStr(PropMaxLen + 10))}
TextChoices == {Absent, StrV(LongStr(PropMaxLen)), StrV(LongStr(PropMaxLen + 1))}
WidthChoices == {Absent, IntV(200)}
FooChoices == {Absent, IntV(1)}
DataChoices == {Absent, Ref(3)}

RootAttrs(controls, content, appbar, title, tooltip, text, width, foo, data) ==
    [a \in AttrNames |->
        CASE a = "controls" -> controls
          [] a = "content" -> content
          [] a = "appbar" -> appbar
          [] a = "title" -> title
          [] a = "tooltip" -> tooltip
          [] a = "text" -> text
          [] a = "width" -> width
          [] a = "foo" -> foo
          [] a = "data" -> data
          [] OTHER -> Absent]

Heap(root, items) ==
    [i \in 1..6 |->
        CASE i = 1 -> Widget(<<"V", "i", "e", "w">>, root)
          [] i = 2 -> Widget(<<"A", "p", "p", "B", "a", "r">>,
                             [a \in {"title", "bgcolor"} |->
                                 IF a = "title" THEN Ref(3) ELSE StrV(Blue)])
          [] i = 3 -> Widget(<<"T", "e", "x", "t">>, [a \in {"value"} |-> StrV(App)])
          [] i = 4 -> [kind |-> "list", items |-> items]
          [] i = 5 -> [kind |-> "dict",
                       entries |-> <<Entry("a", Ref(3)), Entry("b", IntV(1))>>]
          [] i = 6 -> Widget(<<"I", "c", "o", "n", "B", "u", "t", "t", "o", "n">>,
                             [a \in {"tooltip"} |-> StrV(Home)])]

\* the values handed to inspect / to_dict
Inputs == {Ref(1), Ref(2), Ref(4), Ref(5), StrV(Home)}

IndentSizes == 0..MaxIndent
MaxDepths == -1..MaxCfgDepth

Idle == [op |-> "idle"]

(***************************************************************************)
(* The state after import: an object graph built by the caller, no         *)
(* inspector yet.  The root varies in its children, in its scalar          *)
(* attributes, or in its strings.                                          *)
(***************************************************************************)
Init ==
    /\ \/ \E controls \in ControlsChoices, content \in ContentChoices,
             appbar \in AppbarChoices :
             heap = Heap(RootAttrs(controls[1], content, appbar, Absent,
                                   Absent, Absent, IntV(200), Absent, Absent),
                         controls[2])
       \/ \E controls \in {Absent, Ref(4)}, content \in {Absent, StrV(Home)},
             title \in TitleChoices,
             width \in WidthChoices, foo \in FooChoices, data \in DataChoices :
             heap = Heap(RootAttrs(controls, content, Absent, title,
                                   Absent, Absent, width, foo, data),
                         <<Ref(2), Ref(3)>>)
       \/ \E tooltip \in TooltipChoices, text \in TextChoices :
             heap = Heap(RootAttrs(Ref(4), Absent, Absent, Absent,
                                   tooltip, text, IntV(200), Absent, Absent),
                         <<Ref(2), Ref(3)>>)
    /\ inspector = None
    /\ call = Idle
    /\ result = None
    /\ stdout = <<>>

(***************************************************************************)
(* FletInspector.__init__                                                  *)
(***************************************************************************)
FletInspector(indent_size, max_depth) ==
    [indent_size |-> indent_size, max_depth |-> max_depth, current_depth |-> 0]

Construct ==
    /\ call = Idle
    /\ \E indent_size \in IndentSizes, max_depth \in MaxDepths :
          inspector' = FletInspector(indent_size, max_depth)
    /\ UNCHANGED <<heap, call, result, stdout>>

(***************************************************************************)
(* FletInspector.inspect                                                   *)
(***************************************************************************)
Inspect ==
    /\ call = Idle
    /\ inspector # None
    /\ \E obj \in Inputs, show_properties \in BOOLEAN :
          /\ inspector' = [inspector EXCEPT !.current_depth = 0]
          /\ call' = [op |-> "inspect", self |-> inspector', obj |-> obj,
                      show_properties |-> show_properties]
          /\ result' = _inspect_recursive(inspector', obj, show_properties, 0)
    /\ UNCHANGED <<heap, stdout>>

(***************************************************************************)
(* FletInspector.to_dict, called from outside                              *)
(***************************************************************************)
ToDict ==
    /\ call = Idle
    /\ inspector # None
    /\ \E obj \in Inputs :
          /\ call' = [op |-> "to_dict", self |-> inspector, obj |-> obj,
                      show_properties |-> TRUE]
          /\ result' = to_dict(obj, 1)
    /\ UNCHANGED <<heap, inspector, stdout>>

(***************************************************************************)
(* inspect_flet: a fresh inspector, the text printed.  The module-level    *)
(* functions neither read nor write an instance the caller holds; they are *)
(* called here by a caller that holds none.                                *)
(***************************************************************************)
InspectFlet ==
    /\ call = Idle
    /\ inspector = None
    /\ \E obj \in Inputs, show_properties \in BOOLEAN,
          indent_size \in IndentSizes, max_depth \in MaxDepths :
          LET local == FletInspector(indent_size, max_depth)
          IN /\ call' = [op |-> "inspect_flet", self |-> local, obj |-> obj,
                         show_properties |-> show_properties]
             /\ stdout' = _inspect_recursive(local, obj, show_properties, 0)
    /\ result' = None
    /\ UNCHANGED <<heap, inspector>>

(***************************************************************************)
(* flet_to_dict: a fresh inspector with the default configuration          *)
(***************************************************************************)
FletToDict ==
    /\ call = Idle
    /\ inspector = None
    /\ \E obj \in Inputs :
          /\ call' = [op |-> "flet_to_dict",
                      self |-> FletInspector(DefaultIndentSize, DefaultMaxDepth),
                      obj |-> obj, show_properties |-> TRUE]
          /\ result' = to_dict(obj, 1)
    /\ UNCHANGED <<heap, inspector, stdout>>

(***************************************************************************)
(* The call returns: the caller takes the result and what was printed.     *)
(***************************************************************************)
Return ==
    /\ call # Idle
    /\ call' = Idle
    /\ result' = None
    /\ stdout' = <<>>
    /\ UNCHANGED <<heap, inspector>>

Next == Construct \/ Inspect \/ ToDict \/ InspectFlet \/ FletToDict \/ Return

Spec == Init /\ [][Next]_vars

(***************************************************************************)
(* What the properties below speak of.                                     *)
(***************************************************************************)
IsTextCall == call.op \in {"inspect", "inspect_flet"}
IsDictCall == call.op \in {"to_dict", "flet_to_dict"}
\* the text the current call produced
Text == IF call.op = "inspect" THEN result ELSE stdout

Contains(text, piece) == \E i \in 1..Len(text) : text[i] = piece

\* sub occurs in text from position i on
OccursAt(text, sub, i) ==
    /\ i + Len(sub) - 1 <= Len(text)
    /\ \A j \in 1..Len(sub) : text[i + j - 1] = sub[j]

Occurs(text, sub) == \E i \in 1..Len(text) : OccursAt(text, sub, i)

\* the values the traversal visits one level below v
Below(v) ==
    IF IsFlet(v)
    THEN {e.val : e \in Range(_get_special_children(v))}
         \cup (IF _get_children(v) = None THEN {}
               ELSE IF IsList(_get_children(v))
                    THEN Range(ItemsOf(_get_children(v)))
                    ELSE {_get_children(v)})
    ELSE IF IsList(v) THEN Range(ItemsOf(v))
    ELSE IF IsDict(v) THEN {e.val : e \in Range(EntriesOf(v))}
    ELSE {}

\* the structure under v reaches further than n levels below v
RECURSIVE Deeper(_, _)
Deeper(v, n) == IF n < 0 THEN TRUE ELSE \E c \in Below(v) : Deeper(c, n - 1)

\* the indentation piece of the line that holds position i of text
LineIndent(text, i) ==
    LET start == CHOOSE j \in 1..i :
                    /\ text[j] = "\n"
                    /\ \A m \in (j + 1)..i : text[m] # "\n"
    IN text[start + 1]

(***************************************************************************)
(* C1.  Text rendering terminates within max_depth levels: for every input *)
(* and every max_depth >= 0, cyclic widgets included, inspect returns a    *)
(* text, no line of it is indented deeper than level max_depth, and when   *)
(* the structure reaches below level max_depth the text holds the          *)
(* placeholder '... (max depth reached)', in a line of level max_depth.    *)
(***************************************************************************)
C1_TextDepthBounded ==
    (IsTextCall /\ call.self.max_depth >= 0) =>
        LET max_depth == call.self.max_depth
            indent_size == call.self.indent_size
        IN /\ Len(Text) > 0
           /\ \A i \in 2..Len(Text) :
                 Text[i - 1] = "\n" =>
                     Text[i] \in {Spaces(n * indent_size) : n \in 0..max_depth}
           /\ Deeper(call.obj, max_depth) => Contains(Text, Placeholder)
           /\ \A i \in 1..Len(Text) :
                 Text[i] = Placeholder =>
                     LineIndent(Text, i) = Spaces(max_depth * indent_size)

\* a widget whose content is the widget itself was rendered and cut off
C1_Witness ==
    /\ call.op = "inspect"
    /\ call.obj = Ref(1)
    /\ call.self.max_depth = MaxCfgDepth
    /\ call.self.indent_size > 0
    /\ _get_children(Ref(1)) = Ref(1)
    /\ Contains(Text, Placeholder)

(***************************************************************************)
(* C2.  Structured rendering is bounded by max_depth: for every input,     *)
(* cyclic ones included, to_dict returns (it does not exhaust the call     *)
(* stack) and its result nests no deeper than max_depth levels below the   *)
(* root, a placeholder scalar standing for what lies beyond.               *)
(***************************************************************************)
\* the value held under key in a dict built by to_dict
Lookup(d, key) ==
    LET i == CHOOSE j \in 1..Len(d.entries) : d.entries[j].key = key
    IN d.entries[i].val

HasKey(d, key) == \E j \in 1..Len(d.entries) : d.entries[j].key = key

\* the dict to_dict builds for a widget
IsWidgetDict(v) ==
    /\ v.k = "dict"
    /\ HasKey(v, "type") /\ HasKey(v, "properties") /\ HasKey(v, "children")

\* what to_dict produced one level below v
Nested(v) ==
    IF IsWidgetDict(v)
    THEN LET c == Lookup(v, "children")
         IN IF c.k = "list" THEN Range(c.items)
            ELSE IF c = None THEN {} ELSE {c}
    ELSE IF v.k = "list" THEN Range(v.items)
    ELSE IF v.k = "dict" THEN {e.val : e \in Range(v.entries)}
    ELSE {}

\* the result v reaches further than n levels below its root
RECURSIVE NestsDeeper(_, _)
NestsDeeper(v, n) == IF n < 0 THEN TRUE ELSE \E c \in Nested(v) : NestsDeeper(c, n - 1)

C2_DictDepthBounded ==
    (IsDictCall /\ call.self.max_depth >= 0) =>
        /\ result # RecursionError
        /\ ~NestsDeeper(result, call.self.max_depth + 1)

(***************************************************************************)
(* C3.  First-match child policy: the ordinary children of a widget are    *)
(* the contents of one attribute, the first of controls, content, actions, *)
(* tabs, items, leading, title, trailing, options whose value is a         *)
(* non-empty list or a widget; the text and the structured output show     *)
(* exactly these, in their order.  With a content widget and a controls    *)
(* list of 2, the children are the 2 controls.                             *)
(***************************************************************************)
ChildOrder ==
    <<"controls", "content", "actions", "tabs", "items",
      "leading", "title", "trailing", "options">>

\* the attribute holds a non-empty list or a widget
Populated(obj, attr) ==
    /\ hasattr(obj, attr)
    /\ LET value == getattr(obj, attr)
       IN \/ IsRef(value) /\ heap[value.id].kind = "list"
                          /\ Len(heap[value.id].items) > 0
          \/ IsRef(value) /\ heap[value.id].kind = "object" /\ heap[value.id].flet

\* the value of the first populated attribute, None when there is none
FirstMatch(obj) ==
    LET found == {i \in 1..Len(ChildOrder) : Populated(obj, ChildOrder[i])}
    IN IF found = {} THEN None
       ELSE getattr(obj, ChildOrder[CHOOSE i \in found : \A j \in found : i <= j])

\* the ordinary children, as a sequence
AsSequence(children) ==
    IF children = None THEN <<>>
    ELSE IF IsList(children) THEN ItemsOf(children) ELSE <<children>>

Widgets == {i \in DOMAIN heap : heap[i].kind = "object" /\ heap[i].flet}

C3_FirstMatchChildren ==
    /\ \A w \in Widgets : _get_children(Ref(w)) = FirstMatch(Ref(w))
    /\ (IsDictCall /\ IsFlet(call.obj) /\ result # RecursionError) =>
          LET children == AsSequence(FirstMatch(call.obj))
              shown == Nested(result)
              c == Lookup(result, "children")
          IN /\ Cardinality(shown) <= Len(children)
             /\ c.k = "list" =>
                   /\ Len(c.items) = Len(children)
                   /\ \A i \in 1..Len(children) : c.items[i] = to_dict(children[i], 2)
             /\ (c.k # "list" /\ c # None) =>
                   /\ Len(children) = 1
                   /\ c = to_dict(children[1], 2)
             /\ c = None => Len(children) = 0
    /\ (IsTextCall /\ IsFlet(call.obj) /\ call.self.max_depth >= 0) =>
          Text = HeadText(call.obj, call.show_properties)
                 \o BlockText(call.self, FirstMatch(call.obj),
                              _get_special_children(call.obj),
                              call.show_properties, 0, "")

\* the root has a content widget that is not among its 2 controls; both
\* outputs were produced from the controls
C3_Witness ==
    /\ call.op \in {"inspect", "to_dict"}
    /\ call.obj = Ref(1)
    /\ call.self.max_depth >= 0
    /\ hasattr(Ref(1), "content") /\ getattr(Ref(1), "content") = Ref(2)
    /\ hasattr(Ref(1), "controls") /\ getattr(Ref(1), "controls") = Ref(4)
    /\ heap[4].items = <<Ref(3), Ref(6)>>
    /\ call.op = "to_dict" =>
          /\ Lookup(result, "children").k = "list"
          /\ Len(Lookup(result, "children").items) = 2
    /\ call.op = "inspect" =>
          /\ Occurs(Text, <<"", "  [", "1", "] ">>)
          /\ ~Occurs(Text, heap[2].cls)

(***************************************************************************)
(* C4.  Special and ordinary children.  As claimed: a widget A held in a   *)
(* special slot of W (appbar, drawer, end_drawer, floating_action_button,  *)
(* bottom_navigation_bar, navigation_bar) is shown under the slot's name   *)
(* and never again among W's ordinary children, whatever W's child-holding *)
(* attributes contain.                                                     *)
(***************************************************************************)
SpecialSlots ==
    {"appbar", "drawer", "end_drawer", "floating_action_button",
     "bottom_navigation_bar", "navigation_bar"}

\* the widgets W holds in its special slots
SlotWidgets(obj) ==
    {a \in SpecialSlots : hasattr(obj, a) /\ IsFlet(getattr(obj, a))}

\* the text shows the widget of slot a under the slot's name
ShownInSlot(a) ==
    Occurs(Text, <<"\n", "", "  ", a, ": ">>
                 \o _inspect_recursive(call.self, getattr(call.obj, a),
                                       call.show_properties, 1))

\* the values the text shows as ordinary children of the root
OrdinaryShown == Range(AsSequence(_get_children(call.obj)))

C4_NeverShownAgain ==
    (IsTextCall /\ IsFlet(call.obj) /\ call.self.max_depth >= 0) =>
        \A a \in SlotWidgets(call.obj) :
            /\ ShownInSlot(a)
            /\ getattr(call.obj, a) \notin OrdinaryShown

(***************************************************************************)
(* C4 as amended: a widget A held in a special slot of W is shown under    *)
(* the slot's name; no special slot is a child-holding attribute, so A is  *)
(* among W's ordinary children only when the child-holding attribute the   *)
(* children are taken from holds A as well (as its value or as an element  *)
(* of its list).                                                           *)
(***************************************************************************)
\* the attribute the ordinary children are taken from holds v
HeldByChildAttr(obj, v) ==
    \E i \in 1..Len(ChildOrder) :
        /\ Populated(obj, ChildOrder[i])
        /\ \A j \in 1..(i - 1) : ~Populated(obj, ChildOrder[j])
        /\ v \in Range(AsSequence(getattr(obj, ChildOrder[i])))

C4_ShownAgainOnlyIfChild ==
    (IsTextCall /\ IsFlet(call.obj) /\ call.self.max_depth >= 0) =>
        \A a \in SlotWidgets(call.obj) :
            /\ ShownInSlot(a)
            /\ a \notin Range(ChildOrder)
            /\ getattr(call.obj, a) \in OrdinaryShown
                  <=> HeldByChildAttr(call.obj, getattr(call.obj, a))

\* the root's app bar was shown in its slot and is not among the children
C4_Witness ==
    /\ call.op = "inspect"
    /\ call.obj = Ref(1)
    /\ call.self.max_depth >= 1
    /\ "appbar" \in SlotWidgets(Ref(1))
    /\ ShownInSlot("appbar")
    /\ Len(AsSequence(_get_children(Ref(1)))) = 2
    /\ getattr(Ref(1), "appbar") \notin OrdinaryShown

(***************************************************************************)
(* C5.  Empty-value suppression: a property of the allowlist whose value   *)
(* is None or the empty string appears neither in the text (properties     *)
(* shown) nor as a key of 'properties' in the structured output.           *)
(***************************************************************************)
Allowlist ==
    <<"text", "value", "width", "height", "bgcolor", "color",
      "visible", "disabled", "tooltip", "key", "data", "route",
      "title", "label", "hint_text", "padding", "margin">>

\* the text up to the block of children: the class name and the properties
HeadOf(text) ==
    IF Contains(text, " {")
    THEN SubSeq(text, 1, (CHOOSE i \in 1..Len(text) :
                             /\ text[i] = " {"
                             /\ \A j \in 1..(i - 1) : text[j] # " {") - 1)
    ELSE text

\* the property names the text shows, in the order shown
RECURSIVE ShownNames(_, _)
ShownNames(head, i) ==
    IF i >= Len(head) THEN <<>>
    ELSE (IF head[i + 1] \in {"='", "="} THEN <<head[i]>> ELSE <<>>)
         \o ShownNames(head, i + 1)

\* the keys of a dict built by to_dict, in order
Keys(d) == [i \in 1..Len(d.entries) |-> d.entries[i].key]

\* the attribute is there and holds None or ""
EmptyValued(obj, p) ==
    /\ hasattr(obj, p)
    /\ getattr(obj, p) \in {None, StrV(<<>>)}

C5_EmptySuppressed ==
    \A i \in 1..Len(Allowlist) :
        LET p == Allowlist[i]
        IN (call # Idle /\ IsFlet(call.obj) /\ EmptyValued(call.obj, p)) =>
              /\ (IsTextCall /\ call.show_properties /\ call.self.max_depth >= 0) =>
                    /\ p \notin Range(ShownNames(HeadOf(Text), 1))
                    /\ ~Contains(HeadOf(Text), p)
              /\ (IsDictCall /\ result # RecursionError) =>
                    ~HasKey(Lookup(result, "properties"), p)

\* the root's tooltip is "" or None and an output was produced, other
\* properties in it
C5_Witness ==
    /\ call # Idle
    /\ call.obj = Ref(1)
    /\ EmptyValued(Ref(1), "tooltip")
    /\ \/ /\ call.op = "inspect" /\ call.show_properties
          /\ call.self.max_depth >= 0
          /\ Len(ShownNames(HeadOf(Text), 1)) > 0
       \/ /\ call.op = "to_dict"
          /\ Len(Lookup(result, "properties").entries) > 0

(***************************************************************************)
(* C6.  Truncation: the text shows a string property unchanged when it has *)
(* at most 30 characters and shows its first 30 characters followed by     *)
(* '...' when it has more; the structured output carries the full value.   *)
(***************************************************************************)
\* the attribute is there and holds a non-empty string
StringValued(obj, p) ==
    /\ hasattr(obj, p)
    /\ IsStr(getattr(obj, p))
    /\ Len(getattr(obj, p).s) > 0

\* what the text is to show for the string s
Displayed(s) ==
    IF Len(s) <= 30 THEN s
    ELSE [i \in 1..33 |-> IF i <= 30 THEN s[i] ELSE "."]

C6_Truncation ==
    \A i \in 1..Len(Allowlist) :
        LET p == Allowlist[i]
        IN (call # Idle /\ IsFlet(call.obj) /\ StringValued(call.obj, p)) =>
              LET s == getattr(call.obj, p).s
              IN /\ (IsTextCall /\ call.show_properties /\ call.self.max_depth >= 0) =>
                       \E j \in 1..Len(HeadOf(Text)) :
                          /\ HeadOf(Text)[j] \in {"(", ", "}
                          /\ OccursAt(HeadOf(Text),
                                      <<p, "='">> \o Displayed(s) \o <<"'">>, j + 1)
                          /\ HeadOf(Text)[j + 4 + Len(Displayed(s))] \in {")", ", "}
                 /\ (IsDictCall /\ result # RecursionError) =>
                       /\ HasKey(Lookup(result, "properties"), p)
                       /\ Lookup(Lookup(result, "properties"), p) = StrV(s)

\* the root's text has 31 characters or more, or its tooltip has 40, and
\* an output was produced
C6_Witness ==
    /\ call.op \in {"inspect", "to_dict"}
    /\ call.obj = Ref(1)
    /\ call.show_properties
    /\ call.self.max_depth >= 0
    /\ \/ StringValued(Ref(1), "text") /\ Len(getattr(Ref(1), "text").s) > 30
       \/ StringValued(Ref(1), "tooltip") /\ Len(getattr(Ref(1), "tooltip").s) = 40

(***************************************************************************)
(* C7.  Allowlist fidelity: the property names of both outputs are names   *)
(* of the allowlist, in the order of the allowlist; an attribute that is   *)
(* not on the list (foo) never appears; an allowlisted attribute with a    *)
(* non-empty value appears with its value in both.                         *)
(***************************************************************************)
\* names is a selection of the allowlist, in the order of the allowlist
InAllowlistOrder(names) ==
    \E pos \in [1..Len(names) -> 1..Len(Allowlist)] :
        /\ \A i \in 1..Len(names) : names[i] = Allowlist[pos[i]]
        /\ \A i \in 1..Len(names) : \A j \in 1..Len(names) : i < j => pos[i] < pos[j]

\* the attribute is there and holds neither None nor ""
NonEmptyValued(obj, p) ==
    /\ hasattr(obj, p)
    /\ getattr(obj, p) \notin {None, StrV(<<>>)}

\* what the text is to show for the value v
DisplayedValue(v) ==
    IF IsStr(v) THEN <<"='">> \o Displayed(v.s) \o <<"'">>
    ELSE <<"=">> \o PyStr(v)

C7_AllowlistFidelity ==
    (call # Idle /\ IsFlet(call.obj)) =>
        /\ (IsTextCall /\ call.show_properties /\ call.self.max_depth >= 0) =>
              LET head == HeadOf(Text)
              IN /\ InAllowlistOrder(ShownNames(head, 1))
                 /\ ~Contains(head, "foo")
                 /\ \A i \in 1..Len(Allowlist) :
                       NonEmptyValued(call.obj, Allowlist[i]) =>
                          Occurs(head, <<Allowlist[i]>>
                                       \o DisplayedValue(getattr(call.obj, Allowlist[i])))
        /\ (IsDictCall /\ result # RecursionError) =>
              LET properties == Lookup(result, "properties")
              IN /\ InAllowlistOrder(Keys(properties))
                 /\ ~HasKey(properties, "foo")
                 /\ \A i \in 1..Len(Allowlist) :
                       NonEmptyValued(call.obj, Allowlist[i]) =>
                          /\ HasKey(properties, Allowlist[i])
                          /\ Lookup(properties, Allowlist[i])
                                = getattr(call.obj, Allowlist[i])

\* the root has foo = 1 and width = 200, and an output was produced
C7_Witness ==
    /\ call.op \in {"inspect", "to_dict"}
    /\ call.obj = Ref(1)
    /\ call.show_properties
    /\ call.self.max_depth >= 0
    /\ hasattr(Ref(1), "foo")
    /\ hasattr(Ref(1), "width") /\ getattr(Ref(1), "width") = IntV(200)
    /\ call.op = "inspect" => Occurs(Text, <<"width", "=", "200">>)
    /\ call.op = "to_dict" => Lookup(Lookup(result, "properties"), "width") = IntV(200)

RECURSIVE Positions(_)
Positions(v) ==
    {v} \cup (IF v.k = "list"
              THEN UNION {Positions(v.items[i]) : i \in 1..Len(v.items)}
              ELSE IF v.k = "dict"
              THEN UNION {Positions(v.entries[i].val) : i \in 1..Len(v.entries)}
              ELSE {})

\* a mapping, a sequence, or a string, number, boolean or null
Classified(v) == v.k \in {"dict", "list", "str", "int", "bool", "none"}

C9_FullyClassified ==
    (IsDictCall /\ result # RecursionError) =>
        \A v \in Positions(result) : Classified(v)

(***************************************************************************)
(* C10.  Configuration validation: no inspector with a negative max_depth  *)
(* or with indent_size zero exists, neither one the caller constructed nor *)
(* the one inspect_flet renders with.                                      *)
(***************************************************************************)
ValidConfiguration(self) == self.max_depth >= 0 /\ self.indent_size # 0

C10_ConfigurationValidated ==
    /\ inspector # None => ValidConfiguration(inspector)
    /\ call # Idle => ValidConfiguration(call.self)

(***************************************************************************)
(* C11.  Empty-collection rendering.  As claimed: for a widget whose       *)
(* ordinary-children attribute is an empty list (controls=[]) and which    *)
(* has no other children, the text shows the empty children as '[]', and   *)
(* to_dict returns with a 'children' key that is absent or empty.          *)
(***************************************************************************)
\* the attribute holds a list without elements
HoldsEmptyList(obj, attr) ==
    /\ hasattr(obj, attr)
    /\ IsList(getattr(obj, attr))
    /\ Len(ItemsOf(getattr(obj, attr))) = 0

\* a child-holding attribute holds an empty list, none holds children
OnlyEmptyChildren(obj) ==
    /\ IsFlet(obj)
    /\ \E a \in Range(ChildOrder) : HoldsEmptyList(obj, a)
    /\ \A a \in Range(ChildOrder) : ~Populated(obj, a)

\* no children in a to_dict result: no key, None, or an empty list
NoChildrenIn(d) ==
    \/ ~HasKey(d, "children")
    \/ Lookup(d, "children") = None
    \/ Lookup(d, "children") = ListV(<<>>)

C11_EmptyRenderedAsBrackets ==
    /\ (IsTextCall /\ OnlyEmptyChildren(call.obj) /\ call.self.max_depth >= 0) =>
          Contains(Text, "[]")
    /\ (IsDictCall /\ OnlyEmptyChildren(call.obj)) =>
          /\ result # RecursionError
          /\ NoChildrenIn(result)

(***************************************************************************)
(* C11 as amended: for such a widget the text shows no children at all:    *)
(* it is the class name and the properties, followed by a block only when  *)
(* the widget has special children, and then the block holds their lines   *)
(* alone; no '[]' stands for the empty list.  to_dict returns with         *)
(* 'children' None.                                                        *)
(***************************************************************************)
C11_EmptyChildrenOmitted ==
    /\ (IsTextCall /\ OnlyEmptyChildren(call.obj) /\ call.self.max_depth >= 0) =>
          LET special == _get_special_children(call.obj)
          IN /\ Text = HeadText(call.obj, call.show_properties)
                       \o (IF Len(special) = 0 THEN <<>>
                           ELSE <<" {", "\n">>
                                \o SpecialLines(call.self, special, 1,
                                                call.show_properties, 0, "")
                                \o <<"", "}">>)
             /\ ~Contains(Text, "[]")
    /\ (IsDictCall /\ OnlyEmptyChildren(call.obj)) =>
          /\ result # RecursionError
          /\ IsWidgetDict(result)
          /\ Lookup(result, "children") = None

\* the root's controls is the empty list 4 and nothing else holds children;
\* the text is the head alone
C11_Witness ==
    /\ call.op = "inspect"
    /\ call.obj = Ref(1)
    /\ call.self.max_depth >= 0
    /\ hasattr(Ref(1), "controls") /\ getattr(Ref(1), "controls") = Ref(4)
    /\ heap[4].items = <<>>
    /\ OnlyEmptyChildren(Ref(1))
    /\ _get_special_children(Ref(1)) = <<>>
    /\ Text = HeadText(Ref(1), call.show_properties)

(***************************************************************************)
(* C12.  The shape of what _get_children returns.  As claimed: when the    *)
(* first matching child attribute holds a single widget and not a list,    *)
(* the resolver returns a sequence of one element, that widget; and an     *)
(* attribute that is present but None, an empty list or a scalar that is   *)
(* no widget does not end the resolution, which goes on to the next name.  *)
(***************************************************************************)
\* the attribute is there and holds None, an empty list or a plain scalar
Skipped(obj, attr) ==
    /\ hasattr(obj, attr)
    /\ \/ getattr(obj, attr) = None
       \/ HoldsEmptyList(obj, attr)
       \/ getattr(obj, attr).k \in {"str", "int", "bool"}

\* the value of the first populated attribute from the i-th name on
ResolvedFrom(obj, i) ==
    LET found == {j \in i..Len(ChildOrder) : Populated(obj, ChildOrder[j])}
    IN IF found = {} THEN None
       ELSE getattr(obj, ChildOrder[CHOOSE j \in found : \A m \in found : j <= m])

\* a skipped attribute that no populated one precedes leaves the result to
\* the names after it
Continues(obj) ==
    \A i \in 1..Len(ChildOrder) :
        (/\ Skipped(obj, ChildOrder[i])
         /\ \A j \in 1..(i - 1) : ~Populated(obj, ChildOrder[j]))
        => _get_children(obj) = ResolvedFrom(obj, i + 1)

C12_SingleChildWrapped ==
    (call # Idle /\ IsFlet(call.obj)) =>
        /\ IsFlet(FirstMatch(call.obj)) =>
              /\ IsList(_get_children(call.obj))
              /\ ItemsOf(_get_children(call.obj)) = <<FirstMatch(call.obj)>>
        /\ Continues(call.obj)

(***************************************************************************)
(* C12 as amended: when the first matching child attribute holds a single  *)
(* widget, _get_children returns that widget itself, in no sequence: the   *)
(* text shows it as one child line without an index and to_dict puts its   *)
(* mapping directly under 'children'.  An attribute that is present but    *)
(* None, an empty list or a plain scalar does not end the resolution.      *)
(***************************************************************************)
C12_SingleChildReturnedAsIs ==
    (call # Idle /\ IsFlet(call.obj)) =>
        /\ IsFlet(FirstMatch(call.obj)) =>
              LET child == FirstMatch(call.obj)
              IN /\ _get_children(call.obj) = child
                 /\ ~IsList(_get_children(call.obj))
                 /\ (IsDictCall /\ result # RecursionError) =>
                       /\ Lookup(result, "children").k = "dict"
                       /\ Lookup(result, "children") = to_dict(child, 2)
                 /\ (IsTextCall /\ call.self.max_depth >= 0) =>
                       Text = HeadText(call.obj, call.show_properties)
                              \o <<" {", "\n">>
                              \o SpecialLines(call.self,
                                              _get_special_children(call.obj), 1,
                                              call.show_properties, 0, "")
                              \o <<"", "  ">>
                              \o _inspect_recursive(call.self, child,
                                                    call.show_properties, 1)
                              \o <<"\n", "", "}">>
        /\ Continues(call.obj)

\* the root's controls is an empty list and its content the app bar 2:
\* to_dict went past controls and put the app bar's mapping under 'children'
C12_Witness ==
    /\ call.op = "to_dict"
    /\ call.obj = Ref(1)
    /\ HoldsEmptyList(Ref(1), "controls")
    /\ hasattr(Ref(1), "content") /\ getattr(Ref(1), "content") = Ref(2)
    /\ _get_children(Ref(1)) = Ref(2)
    /\ Lookup(result, "children").k = "dict"
    /\ Lookup(Lookup(result, "children"), "type") = StrV(heap[2].cls)

(***************************************************************************)
(* C13.  to_dict never consults the special slots: a widget that W holds   *)
(* only in a special slot (appbar, drawer, end_drawer,                     *)
(* floating_action_button, bottom_navigation_bar, navigation_bar) appears  *)
(* nowhere in to_dict(W), neither under 'properties' nor under 'children', *)
(* although the text of W shows it under the slot's name; and the          *)
(* 'children' of to_dict(W) are, one for one and in order, the ordinary    *)
(* children the text of W shows.  Stated where to_dict returns and for     *)
(* the text of an inspector with max_depth >= 0 and indent_size > 0.       *)
(***************************************************************************)
\* what v holds, the special slots of a widget left aside
Held(v) ==
    IF IsFlet(v)
    THEN {getattr(v, a) : a \in (DOMAIN heap[v.id].attrs) \ SpecialSlots}
    ELSE IF IsList(v) THEN Range(ItemsOf(v))
    ELSE IF IsDict(v) THEN {e.val : e \in Range(EntriesOf(v))}
    ELSE {}

\* v and what is held at most n levels below it
RECURSIVE ReachedFrom(_, _)
ReachedFrom(v, n) ==
    IF n = 0 THEN {v}
    ELSE {v} \cup UNION {ReachedFrom(c, n - 1) : c \in Held(v)}

\* W holds the widget of slot a in special slots only
HeldOnlyInSlot(obj, a) ==
    getattr(obj, a) \notin
        UNION {ReachedFrom(c, Cardinality(DOMAIN heap) - 1) : c \in Held(obj)}

\* the widget w stands somewhere in the to_dict result d: as the object
\* itself or as the mapping built for it
Appears(d, w) ==
    \E v \in Positions(d) :
        \/ v = w
        \/ /\ v.k = "dict"
           /\ IsWidgetDict(v)
           /\ Lookup(v, "type") = StrV(heap[w.id].cls)

\* where the lines of the root's block begin: those of the indexed children,
\* and those of a single child (a line that names no special slot)
IndexedLines(text) ==
    {p \in 1..(Len(text) - 4) :
        text[p] = "\n" /\ text[p + 1] = "" /\ text[p + 2] = "  ["}

PlainLines(text) ==
    {p \in 1..(Len(text) - 3) :
        /\ text[p] = "\n" /\ text[p + 1] = "" /\ text[p + 2] = "  "
        /\ text[p + 3] \notin SpecialSlots}

\* the child shown from position q on is the one to_dict converted to c
SameChild(text, q, c, max_depth) ==
    IF max_depth = 0 THEN text[q] = Placeholder
    ELSE IsWidgetDict(c) => OccursAt(text, Lookup(c, "type").s, q)

C13_SpecialSlotsNotInDict ==
    (/\ IsDictCall /\ IsFlet(call.obj) /\ result # RecursionError
     /\ call.self.max_depth >= 0 /\ call.self.indent_size > 0) =>
        LET text == _inspect_recursive(call.self, call.obj, TRUE, 0)
            c == Lookup(result, "children")
            max_depth == call.self.max_depth
        IN /\ \A a \in SlotWidgets(call.obj) :
                 /\ Occurs(text, <<"\n", "", "  ", a, ": ">>
                                 \o _inspect_recursive(call.self,
                                        getattr(call.obj, a), TRUE, 1))
                 /\ HeldOnlyInSlot(call.obj, a) =>
                        ~Appears(result, getattr(call.obj, a))
           /\ c.k = "list" =>
                 /\ Cardinality(IndexedLines(text)) = Len(c.items)
                 /\ PlainLines(text) = {}
                 /\ \A i \in 1..Len(c.items) :
                       \E p \in IndexedLines(text) :
                           /\ text[p + 3] = IntStr(i - 1)
                           /\ text[p + 4] = "] "
                           /\ SameChild(text, p + 5, c.items[i], max_depth)
                           /\ \A q \in IndexedLines(text) :
                                 q < p <=> \E j \in 1..(i - 1) :
                                              text[q + 3] = IntStr(j - 1)
           /\ c.k = "dict" =>
                 /\ IndexedLines(text) = {}
                 /\ Cardinality(PlainLines(text)) = 1
                 /\ \A p \in PlainLines(text) :
                       SameChild(text, p + 3, c, max_depth)
           /\ c = None =>
                 /\ IndexedLines(text) = {}
                 /\ PlainLines(text) = {}

\* the root holds the app bar 2 in its appbar slot only and two controls:
\* to_dict returned the two children and nothing of the app bar
C13_Witness ==
    /\ call.op = "to_dict"
    /\ call.obj = Ref(1)
    /\ call.self.max_depth >= 1 /\ call.self.indent_size > 0
    /\ "appbar" \in SlotWidgets(Ref(1))
    /\ getattr(Ref(1), "appbar") = Ref(2)
    /\ HeldOnlyInSlot(Ref(1), "appbar")
    /\ result # RecursionError
    /\ Lookup(result, "children").k = "list"
    /\ Len(Lookup(result, "children").items) = 2
    /\ ~Appears(result, Ref(2))
    /\ Cardinality(IndexedLines(_inspect_recursive(call.self, Ref(1), TRUE, 0))) = 2

====
